---- MODULE Spec2Model ----
(***************************************************************************)
(* Model of repo_manager.py: discovery of the checkouts below the two      *)
(* search roots, classification of each working tree, and the per-         *)
(* repository policy dispatch of process() (skip / force / latest / plain).*)
(*                                                                         *)
(* Captured command output is a text: a sequence of tokens, where "\n"     *)
(* separates lines, " " is blank space and ":" is the colon.  The string   *)
(* methods the program applies (strip, splitlines, split, startswith,      *)
(* lower, in) are computed on that representation.                         *)
(***************************************************************************)
EXTENDS Integers, Sequences, FiniteSets, TLC

VARIABLES
    args,       \* sys.argv[1:], as the set of words it holds
    SSH_KEY,    \* the configured credential path ("" when none is configured)
    exists,     \* which search roots exist on disk
    scan,       \* per directory on disk: its subdirectories, as os.scandir
                \* lists them
    gitdirs,    \* the directories that directly contain a .git directory
    tracked,    \* per checkout: files with tracked modifications
    untracked,  \* per checkout: untracked files in the working tree
    stashes,    \* per checkout: the stash list
    head,       \* per checkout: current branch, commits pulled, commits the
                \* remote branch is ahead by
    history,    \* the checkouts' state and the Outcome lines at the start
                \* and at the end of each earlier run of the tool
    pc,         \* position of the program
    latest,     \* process(latest=...)
    force,      \* process(force=...)
    repos,      \* the list get_repos() returned
    total,      \* len(repos)
    i,          \* loop index of process (1-based, as enumerate(start=1))
    clean,      \* result of is_clean for the current repository
    br,         \* result of default_branch for the current repository
    outs,       \* captured outputs of the current iteration
    cmds,       \* every external command run so far, in order
    verdicts,   \* the classification of each repository processed so far
    outcomes,   \* the Outcome lines printed so far
    errors,     \* number of "[ERROR] No SSH_KEY" lines printed
    agents,     \* number of ssh-agent processes started
    keys,       \* number of ssh-add registrations
    helps       \* number of times the help page was printed

vars == <<args, SSH_KEY, exists, scan, gitdirs, tracked, untracked, stashes,
          head, history, pc, latest, force, repos, total, i, clean, br, outs,
          cmds, verdicts, outcomes, errors, agents, keys, helps>>

-----------------------------------------------------------------------------
(* Bounds *)

\* largest number of checkouts below the search roots
MaxRepos == 2

\* longest status listing handed to is_clean on its own
MaxStatusLines == 3

-----------------------------------------------------------------------------
(* Text helpers: Python string methods on token sequences *)

Whitespace == {" ", "\n"}

RECURSIVE lstrip(_)
lstrip(s) ==
    IF s # <<>> /\ Head(s) \in Whitespace THEN lstrip(Tail(s)) ELSE s

RECURSIVE rstrip(_)
rstrip(s) ==
    IF s # <<>> /\ s[Len(s)] \in Whitespace
    THEN rstrip(SubSeq(s, 1, Len(s) - 1))
    ELSE s

\* str.strip()
strip(s) == rstrip(lstrip(s))

\* position of the first occurrence of token sep in s (0 when absent)
find(s, sep) ==
    IF \E k \in DOMAIN s : s[k] = sep
    THEN CHOOSE k \in DOMAIN s : s[k] = sep /\ \A j \in 1..(k - 1) : s[j] # sep
    ELSE 0

\* str.split(sep)
RECURSIVE split(_, _)
split(s, sep) ==
    LET k == find(s, sep) IN
    IF k = 0 THEN <<s>>
    ELSE <<SubSeq(s, 1, k - 1)>> \o split(SubSeq(s, k + 1, Len(s)), sep)

\* str.splitlines(): no line for the empty text, none after a final newline
splitlines(s) ==
    IF s = <<>> THEN <<>>
    ELSE LET parts == split(s, "\n") IN
         IF parts[Len(parts)] = <<>>
         THEN SubSeq(parts, 1, Len(parts) - 1)
         ELSE parts

\* line.startswith("??")
startswith(line) == Len(line) >= 2 /\ line[1] = "?" /\ line[2] = "?"

\* needle in text
Contains(text, needle) == \E k \in DOMAIN text : text[k] = needle

\* str.lower() on one token: the tokens that hold capital letters
LowerTok(t) ==
    CASE t = "Error" -> "error"
      [] t = "Fatal" -> "fatal"
      [] t = "Permission denied" -> "permission denied"
      [] t = "HEAD branch" -> "head branch"
      [] t = "Fetch URL" -> "fetch url"
      [] t = "M" -> "m"
      [] OTHER -> t

\* str.lower()
lower(text) == [k \in DOMAIN text |-> LowerTok(text[k])]

RECURSIVE Concat(_)
Concat(ss) == IF ss = <<>> THEN <<>> ELSE Head(ss) \o Concat(Tail(ss))

-----------------------------------------------------------------------------
(* The file system below ROOT_DIR and the working trees *)

\* SEARCH_DIRS, relative to ROOT_DIR
SEARCH_DIRS == << <<"Extensions">>, <<"Modules">> >>

\* the directories that exist below a search root that exists; every one of
\* them has at most one subdirectory, so os.walk has no listing order to pick
Dirs == { <<"Extensions">>, <<"Extensions", "a">>, <<"Modules">> }

\* the files a working tree may hold changes of
TrackedFiles == {"file.txt"}
UntrackedFiles == {"new.txt"}

IsPrefix(p, q) == Len(p) <= Len(q) /\ SubSeq(q, 1, Len(p)) = p

\* the subdirectories os.walk finds in `top`
subdirs(top) == {d \in Dirs : Len(d) = Len(top) + 1 /\ IsPrefix(top, d)}

RECURSIVE SetToSeq(_)
SetToSeq(S) ==
    IF S = {} THEN <<>>
    ELSE LET x == CHOOSE y \in S : TRUE IN <<x>> \o SetToSeq(S \ {x})

\* faulty variant: the walk does not descend below a checkout it has found
RECURSIVE walk_pruned(_)
walk_pruned(top) ==
    LET subs == scan[top] IN
    IF top \in gitdirs THEN <<top>>
    ELSE <<top>> \o Concat([k \in DOMAIN subs |-> walk_pruned(subs[k])])

\* os.walk(base), top-down: the directory itself, then each subdirectory's walk
RECURSIVE walk(_)
walk(top) ==
    LET subs == scan[top] IN
    <<top>> \o Concat([k \in DOMAIN subs |-> walk(subs[k])])

\* get_repos() for one search root
repos_of(base, ex, git) ==
    IF ~ex[base] THEN <<>>
    ELSE SelectSeq(walk(base), LAMBDA root : root \in git)

\* get_repos()
get_repos(ex, git) ==
    Concat([k \in DOMAIN SEARCH_DIRS |-> repos_of(SEARCH_DIRS[k], ex, git)])

\* the text `git status --porcelain` prints: tracked changes, then untracked
PorcelainStatus(tr, un) ==
    LET t == SetToSeq(tr)
        u == SetToSeq(un)
    IN  Concat([k \in DOMAIN t |-> <<" ", "M", " ", t[k], "\n">>])
        \o Concat([k \in DOMAIN u |-> <<"?", "?", " ", u[k], "\n">>])

\* git stash push -u: whether the stash takes the untracked files too
IncludeUntracked == TRUE

-----------------------------------------------------------------------------
(* Captured outputs the external commands may produce *)

FetchOutputs ==
    { <<"Fetching origin", "\n">>,
      <<"Permission denied", " ", "(publickey)", "\n",
        "fatal", ":", " ", "Could not read from remote repository", "\n">>,
      <<"fatal", ":", " ", "unable to access", "\n">> }

RemoteOutputs ==
    { <<"fatal", ":", " ", "origin", "\n">>,
      <<" ", "Fetch URL", ":", " ", "u", "\n",
        " ", "HEAD branch", ":", " ", "main", "\n">>,
      <<" ", "HEAD branch", " ", "(ambiguous)", ":", "\n">>,
      <<" ", "HEAD branch", "\n">> }

CheckoutOutputs ==
    { <<"Already on", " ", "branch", "\n">>,
      <<"error", ":", " ", "pathspec", "\n">>,
      <<"Fatal", ":", " ", "unable to read tree", "\n">> }

PullOutputs ==
    { <<"Already up to date.", "\n">>,
      <<"fatal", ":", " ", "Not possible to fast-forward", "\n">>,
      <<"Error", ":", " ", "cannot lock ref", "\n">> }

-----------------------------------------------------------------------------
(* Pure functions of the program *)

RECURSIVE is_clean_loop(_)
is_clean_loop(status_lines) ==
    IF status_lines = <<>> THEN TRUE
    ELSE IF startswith(Head(status_lines))
         THEN is_clean_loop(Tail(status_lines))
         ELSE FALSE

\* faulty variant: only the last status line is looked at
is_clean_last(out) ==
    LET status_lines == splitlines(strip(out)) IN
    status_lines = <<>> \/ startswith(status_lines[Len(status_lines)])

\* is_clean(repo), from the captured status text
is_clean(out) == is_clean_loop(splitlines(strip(out)))

NoneValue == [kind |-> "None", val |-> <<>>]

\* faulty variant: a missing "HEAD branch" line falls back to a conventional name
default_branch_fallback(out) ==
    LET lines == splitlines(out)
        hits == {k \in DOMAIN lines : Contains(lines[k], "HEAD branch")}
    IN  IF hits = {} THEN [kind |-> "str", val |-> <<"master">>]
        ELSE LET k == CHOOSE h \in hits : \A g \in hits : h <= g
                 fields == split(lines[k], ":")
             IN  IF Len(fields) < 2
                 THEN [kind |-> "IndexError", val |-> <<>>]
                 ELSE [kind |-> "str", val |-> strip(fields[2])]

\* default_branch(repo), from the captured remote-info text: the value
\* returned, None, or the IndexError of line.split(":")[1]
default_branch(out) ==
    LET lines == splitlines(out)
        hits == {k \in DOMAIN lines : Contains(lines[k], "HEAD branch")}
    IN  IF hits = {} THEN NoneValue
        ELSE LET k == CHOOSE h \in hits : \A g \in hits : h <= g
                 fields == split(lines[k], ":")
             IN  IF Len(fields) < 2
                 THEN [kind |-> "IndexError", val |-> <<>>]
                 ELSE [kind |-> "str", val |-> strip(fields[2])]

\* faulty variant: every fetch failure triggers the credential load
PermissionDeniedAny(out) ==
    Contains(out, "Permission denied") \/ Contains(out, "fatal")

\* "Permission denied" in out
PermissionDenied(out) == Contains(out, "Permission denied")

\* faulty variant: dirty repositories are stashed whatever the force flag
ForceBranchAlways(f, c) == ~c

\* faulty variant: the force branch is taken for clean repositories too
ForceBranchIgnoreClean(f, c) == f

\* if force and not clean
ForceBranch(f, c) == f /\ ~c

\* if not br
NoBranch(b) == b.kind = "None" \/ b.val = <<>>

\* faulty variant: only "error" is looked for
CheckoutFailedErrorOnly(co) == Contains(lower(co), "error")

\* "error" in co.lower() or "fatal" in co.lower()
CheckoutFailed(co) ==
    Contains(lower(co), "error") \/ Contains(lower(co), "fatal")

\* faulty variant: only "error" is looked for in the pull output
PullFailedErrorOnly(pl) == Contains(lower(pl), "error")

\* "error" in pl.lower() or "fatal" in pl.lower()
PullFailed(pl) ==
    Contains(lower(pl), "error") \/ Contains(lower(pl), "fatal")

-----------------------------------------------------------------------------
(* State helpers *)

NoOutputs ==
    [status |-> <<>>, fetch |-> <<>>, retry |-> <<>>, remote |-> <<>>,
     checkout |-> <<>>, pull |-> <<>>]

\* one external command, as run(cmd, cwd=repos[n]) or subprocess.run issues it
Cmd(n, c) == [repo |-> n, cmd |-> c]

\* faulty variant: the counter starts at zero
OutcomeZeroBased(tag, note) ==
    [index |-> i - 1, total |-> total, rel |-> repos[i], tag |-> tag,
     note |-> note]

\* one printed Outcome line
Outcome(tag, note) ==
    [index |-> i, total |-> total, rel |-> repos[i], tag |-> tag, note |-> note]

\* a checkout's branch state: the current branch, the commits pulled so far
\* and the commits its remote branch is ahead by
Head0(b, n) == [branch |-> <<b>>, commit |-> 0, behind |-> n]

\* what a run of the tool leaves behind: each checkout's working tree, stash
\* list and branch state, and the Outcome lines printed
Snapshot ==
    [state |-> [d \in gitdirs |->
                  [tracked |-> tracked[d], untracked |-> untracked[d],
                   stashes |-> stashes[d], head |-> head[d]]],
     outcomes |-> outcomes]

\* the text of a pull that advanced the branch
FastForward == <<"Updating", "\n", "Fast-forward", "\n">>

\* what `git pull --ff-only` may print: nothing is pulled when the remote
\* branch is not ahead, and a successful pull fast-forwards when it is
PullOutputsOf(r) ==
    IF head[r].behind = 0 THEN PullOutputs
    ELSE (PullOutputs \ {<<"Already up to date.", "\n">>}) \cup {FastForward}

\* faulty variant: a clean repository is taken down the latest path in every
\* mode
AfterFetchLatestAlways == IF clean THEN "default_branch" ELSE "pull"

\* where the program goes when fetch(repo) has returned
AfterFetch == IF clean /\ latest THEN "default_branch" ELSE "pull"

-----------------------------------------------------------------------------
(* Initial states *)

\* the command lines tried: every combination of the three mode words,
\* --help on its own and --help with --pull
ArgLists ==
    SUBSET {"--pull", "--latest", "--force"}
        \cup {{"--help"}, {"--help", "--pull"}}

Init ==
    /\ args \in ArgLists
    /\ SSH_KEY \in {"", "~/.ssh/id_rsa"}
    /\ exists \in [{SEARCH_DIRS[k] : k \in DOMAIN SEARCH_DIRS} -> BOOLEAN]
    /\ gitdirs \in {g \in SUBSET Dirs :
                      /\ Cardinality(g) <= MaxRepos
                      /\ \A d \in g : exists[<<d[1]>>]}
    /\ scan = [d \in {e \in Dirs : exists[<<e[1]>>]} |->
                  SetToSeq(subdirs(d))]
    /\ tracked \in [gitdirs -> SUBSET TrackedFiles]
    /\ untracked \in [gitdirs -> SUBSET UntrackedFiles]
    /\ stashes = [d \in gitdirs |-> <<>>]
    /\ head = [d \in gitdirs |-> Head0("main", 0)]
    /\ pc = "main"
    /\ latest = FALSE
    /\ force = FALSE
    /\ repos = <<>>
    /\ total = 0
    /\ i = 0
    /\ clean = TRUE
    /\ br = <<>>
    /\ outs = NoOutputs
    /\ cmds = <<>>
    /\ verdicts = <<>>
    /\ outcomes = <<>>
    /\ errors = 0
    /\ agents = 0
    /\ keys = 0
    /\ helps = 0
    /\ history = <<Snapshot>>

-----------------------------------------------------------------------------
(* Actions *)

\* faulty variant: --force is handed on to process() in latest mode too
MainForcePassed ==
    /\ pc = "main"
    /\ IF args = {} \/ ("--pull" \notin args /\ "--latest" \notin args)
       THEN /\ helps' = helps + 1
            /\ pc' = "exit"
            /\ UNCHANGED <<latest, force>>
       ELSE /\ latest' = ("--pull" \notin args)
            /\ force' = ("--force" \in args)
            /\ pc' = "get_repos"
            /\ UNCHANGED helps
    /\ UNCHANGED <<args, SSH_KEY, exists, scan, gitdirs, head, history, tracked,
                   untracked, stashes, repos, total, i, clean, br, outs, cmds,
                   verdicts, outcomes, errors, agents, keys>>

\* faulty variant: --latest is looked for before --pull
MainLatestFirst ==
    /\ pc = "main"
    /\ IF args = {} \/ ("--pull" \notin args /\ "--latest" \notin args)
       THEN /\ helps' = helps + 1
            /\ pc' = "exit"
            /\ UNCHANGED <<latest, force>>
       ELSE /\ latest' = ("--latest" \in args)
            /\ force' = ("--latest" \notin args /\ "--force" \in args)
            /\ pc' = "get_repos"
            /\ UNCHANGED helps
    /\ UNCHANGED <<args, SSH_KEY, exists, scan, gitdirs, head, history, tracked,
                   untracked, stashes, repos, total, i, clean, br, outs, cmds,
                   verdicts, outcomes, errors, agents, keys>>

\* the entry point: help, or process() in the mode the arguments select
Main ==
    /\ pc = "main"
    /\ IF args = {} \/ ("--pull" \notin args /\ "--latest" \notin args)
       THEN /\ helps' = helps + 1
            /\ pc' = "exit"
            /\ UNCHANGED <<latest, force>>
       ELSE /\ latest' = ("--pull" \notin args)
            /\ force' = ("--pull" \in args /\ "--force" \in args)
            /\ pc' = "get_repos"
            /\ UNCHANGED helps
    /\ UNCHANGED <<args, SSH_KEY, exists, scan, gitdirs, head, history, tracked, untracked, stashes,
                   repos, total, i, clean, br, outs, cmds, verdicts, outcomes,
                   errors, agents, keys>>

\* process(): repos = get_repos(); total = len(repos)
GetRepos ==
    /\ pc = "get_repos"
    /\ repos' = get_repos(exists, gitdirs)
    /\ total' = Len(repos')
    /\ i' = 0
    /\ pc' = "loop"
    /\ UNCHANGED <<args, SSH_KEY, exists, scan, gitdirs, head, history, tracked, untracked, stashes,
                   latest, force, clean, br, outs, cmds, verdicts, outcomes,
                   errors, agents, keys, helps>>

\* for i, repo in enumerate(repos, start=1): the next repository
LoopNext ==
    /\ pc = "loop"
    /\ i < total
    /\ i' = i + 1
    /\ clean' = TRUE
    /\ br' = <<>>
    /\ outs' = NoOutputs
    /\ pc' = "is_clean"
    /\ UNCHANGED <<args, SSH_KEY, exists, scan, gitdirs, head, history, tracked, untracked, stashes,
                   latest, force, repos, total, cmds, verdicts, outcomes,
                   errors, agents, keys, helps>>

\* the loop is exhausted: process() returns and the program ends
LoopEnd ==
    /\ pc = "loop"
    /\ i >= total
    /\ pc' = "exit"
    /\ UNCHANGED <<args, SSH_KEY, exists, scan, gitdirs, head, history, tracked, untracked, stashes,
                   latest, force, repos, total, i, clean, br, outs, cmds,
                   verdicts, outcomes, errors, agents, keys, helps>>

\* clean = is_clean(repo)
IsClean ==
    /\ pc = "is_clean"
    /\ LET out == PorcelainStatus(tracked[repos[i]], untracked[repos[i]]) IN
       /\ outs' = [outs EXCEPT !.status = out]
       /\ clean' = is_clean(out)
       /\ verdicts' = Append(verdicts, is_clean(out))
    /\ cmds' = Append(cmds, Cmd(i, "status"))
    /\ pc' = "branch"
    /\ UNCHANGED <<args, SSH_KEY, exists, scan, gitdirs, head, history, tracked, untracked, stashes,
                   latest, force, repos, total, i, br, outcomes, errors,
                   agents, keys, helps>>

\* faulty variant: the force branch goes on to fetch without stashing
GitStashForgotten ==
    /\ pc = "branch"
    /\ ForceBranch(force, clean)
    /\ pc' = "fetch"
    /\ UNCHANGED <<args, SSH_KEY, exists, scan, gitdirs, head, history, tracked, untracked, stashes,
                   latest, force, repos, total, i, clean, br, outs, cmds,
                   verdicts, outcomes, errors, agents, keys, helps>>

\* force mode, dirty repository: git_stash(repo)
GitStash ==
    /\ pc = "branch"
    /\ ForceBranch(force, clean)
    /\ LET r == repos[i] IN
       /\ stashes' = [stashes EXCEPT ![r] =
             Append(@, [tracked |-> tracked[r],
                        untracked |-> IF IncludeUntracked
                                      THEN untracked[r] ELSE {}])]
       /\ tracked' = [tracked EXCEPT ![r] = {}]
       /\ untracked' = [untracked EXCEPT ![r] =
             IF IncludeUntracked THEN {} ELSE @]
    /\ cmds' = Append(cmds, Cmd(i, "stash"))
    /\ pc' = "fetch"
    /\ UNCHANGED <<args, SSH_KEY, exists, scan, gitdirs, head, history, latest, force, repos, total,
                   i, clean, br, outs, verdicts, outcomes, errors, agents,
                   keys, helps>>

\* not clean and not forced: the repository is skipped
SkipDirty ==
    /\ pc = "branch"
    /\ ~ForceBranch(force, clean)
    /\ ~clean
    /\ outcomes' = Append(outcomes, Outcome("SKIP", <<"uncommitted">>))
    /\ pc' = "loop"
    /\ UNCHANGED <<args, SSH_KEY, exists, scan, gitdirs, head, history, tracked, untracked, stashes,
                   latest, force, repos, total, i, clean, br, outs, cmds,
                   verdicts, errors, agents, keys, helps>>

\* fetch(repo), first attempt
Fetch ==
    /\ \/ pc = "fetch"
       \/ pc = "branch" /\ ~ForceBranch(force, clean) /\ clean
    /\ \E out \in FetchOutputs :
          /\ outs' = [outs EXCEPT !.fetch = out]
          /\ pc' = IF PermissionDenied(out) THEN "load_ssh" ELSE AfterFetch
    /\ cmds' = Append(cmds, Cmd(i, "fetch"))
    /\ UNCHANGED <<args, SSH_KEY, exists, scan, gitdirs, head, history, tracked, untracked, stashes,
                   latest, force, repos, total, i, clean, br, verdicts,
                   outcomes, errors, agents, keys, helps>>

\* faulty variant: the agent is started and ssh-add run without looking at
\* SSH_KEY
LoadSshUnchecked ==
    /\ pc = "load_ssh"
    /\ agents' = agents + 1
    /\ keys' = keys + 1
    /\ UNCHANGED errors
    /\ cmds' = Append(cmds, Cmd(i, "load_ssh"))
    /\ pc' = "retry"
    /\ UNCHANGED <<args, SSH_KEY, exists, scan, gitdirs, head, history, tracked,
                   untracked, stashes, latest, force, repos, total, i, clean,
                   br, outs, verdicts, outcomes, helps>>

\* load_ssh()
LoadSsh ==
    /\ pc = "load_ssh"
    /\ IF SSH_KEY = ""
       THEN /\ errors' = errors + 1
            /\ UNCHANGED <<agents, keys>>
       ELSE /\ agents' = agents + 1
            /\ keys' = keys + 1
            /\ UNCHANGED errors
    /\ cmds' = Append(cmds, Cmd(i, "load_ssh"))
    /\ pc' = "retry"
    /\ UNCHANGED <<args, SSH_KEY, exists, scan, gitdirs, head, history, tracked, untracked, stashes,
                   latest, force, repos, total, i, clean, br, outs, verdicts,
                   outcomes, helps>>

\* fetch(repo), the retry after load_ssh()
FetchRetry ==
    /\ pc = "retry"
    /\ \E out \in FetchOutputs : outs' = [outs EXCEPT !.retry = out]
    /\ cmds' = Append(cmds, Cmd(i, "fetch"))
    /\ pc' = AfterFetch
    /\ UNCHANGED <<args, SSH_KEY, exists, scan, gitdirs, head, history, tracked, untracked, stashes,
                   latest, force, repos, total, i, clean, br, verdicts,
                   outcomes, errors, agents, keys, helps>>

\* latest mode: br = default_branch(repo), skipped when there is none
DefaultBranch ==
    /\ pc = "default_branch"
    /\ \E out \in RemoteOutputs :
          LET b == default_branch(out) IN
          /\ outs' = [outs EXCEPT !.remote = out]
          /\ IF b.kind = "IndexError"
             THEN /\ pc' = "raised"
                  /\ UNCHANGED <<br, outcomes>>
             ELSE IF NoBranch(b)
             THEN /\ outcomes' =
                        Append(outcomes, Outcome("SKIP", <<"no default branch">>))
                  /\ pc' = "loop"
                  /\ UNCHANGED br
             ELSE /\ br' = b.val
                  /\ pc' = "checkout"
                  /\ UNCHANGED outcomes
    /\ cmds' = Append(cmds, Cmd(i, "remote"))
    /\ UNCHANGED <<args, SSH_KEY, exists, scan, gitdirs, head, history, tracked, untracked, stashes,
                   latest, force, repos, total, i, clean, verdicts, errors,
                   agents, keys, helps>>

\* git checkout switched the branch: it printed one of its success lines
CheckoutSucceeded(co) == co = <<"Already on", " ", "branch", "\n">>

\* latest mode: co = checkout(repo, br), skipped when it failed
Checkout ==
    /\ pc = "checkout"
    /\ \E co \in CheckoutOutputs :
          /\ outs' = [outs EXCEPT !.checkout = co]
          /\ IF CheckoutFailed(co)
             THEN /\ outcomes' =
                        Append(outcomes, Outcome("SKIP", <<"checkout failed">>))
                  /\ pc' = "loop"
             ELSE /\ pc' = "pull"
                  /\ UNCHANGED outcomes
          /\ head' = IF CheckoutSucceeded(co)
                     THEN [head EXCEPT ![repos[i]].branch = br]
                     ELSE head
    /\ cmds' = Append(cmds, Cmd(i, "checkout"))
    /\ UNCHANGED <<args, SSH_KEY, exists, scan, gitdirs, history, tracked, untracked, stashes,
                   latest, force, repos, total, i, clean, br, verdicts, errors,
                   agents, keys, helps>>

\* pull(repo) and the Outcome line that follows it in each mode
Pull ==
    /\ pc = "pull"
    /\ \E pl \in PullOutputsOf(repos[i]) :
          /\ outs' = [outs EXCEPT !.pull = pl]
          /\ head' = IF pl = FastForward
                     THEN [head EXCEPT ![repos[i]].commit = @ + 1,
                                       ![repos[i]].behind = 0]
                     ELSE head
          /\ outcomes' = Append(outcomes,
                IF ~clean THEN Outcome("FORCE", <<"stash + pull">>)
                ELSE IF ~latest THEN Outcome("OK", <<"pull">>)
                ELSE IF PullFailed(pl) THEN Outcome("SKIP", <<"pull failed">>)
                ELSE Outcome("OK", <<"latest: ">> \o br))
    /\ cmds' = Append(cmds, Cmd(i, "pull"))
    /\ pc' = "loop"
    /\ UNCHANGED <<args, SSH_KEY, exists, scan, gitdirs, history, tracked, untracked, stashes,
                   latest, force, repos, total, i, clean, br, verdicts, errors,
                   agents, keys, helps>>

Next ==
    \/ Main
    \/ GetRepos
    \/ LoopNext
    \/ LoopEnd
    \/ IsClean
    \/ GitStash
    \/ SkipDirty
    \/ Fetch
    \/ LoadSsh
    \/ FetchRetry
    \/ DefaultBranch
    \/ Checkout
    \/ Pull

Spec == Init /\ [][Next]_vars

-----------------------------------------------------------------------------
(* is_clean on its own: every listing of up to MaxStatusLines status lines *)

\* status lines git prints: modified in the work tree, untracked, staged,
\* and the message of a checkout that cannot be read
StatusLines ==
    { <<" ", "M", " ", "file.txt">>,
      <<"?", "?", " ", "new.txt">>,
      <<"M", " ", " ", "file.txt">>,
      <<"fatal", ":", " ", "not a git repository">> }

\* the captured text of a listing: each line followed by a newline
Render(lines) == Concat([k \in DOMAIN lines |-> lines[k] \o <<"\n">>])

Listings ==
    UNION {[1..n -> StatusLines] : n \in 0..MaxStatusLines}

InitClassify ==
    /\ args = {}
    /\ SSH_KEY = ""
    /\ exists = [b \in {SEARCH_DIRS[k] : k \in DOMAIN SEARCH_DIRS} |-> TRUE]
    /\ scan = [d \in Dirs |-> SetToSeq(subdirs(d))]
    /\ gitdirs = {<<"Modules">>}
    /\ tracked = [d \in gitdirs |-> {}]
    /\ untracked = [d \in gitdirs |-> {}]
    /\ stashes = [d \in gitdirs |-> <<>>]
    /\ head = [d \in gitdirs |-> Head0("main", 0)]
    /\ pc = "classify"
    /\ latest = FALSE
    /\ force = FALSE
    /\ repos = <<<<"Modules">>>>
    /\ total = 1
    /\ i = 1
    /\ clean = TRUE
    /\ br = <<>>
    /\ \E l \in Listings : outs = [NoOutputs EXCEPT !.status = Render(l)]
    /\ cmds = <<>>
    /\ verdicts = <<>>
    /\ outcomes = <<>>
    /\ errors = 0
    /\ agents = 0
    /\ keys = 0
    /\ helps = 0
    /\ history = <<Snapshot>>

\* clean = is_clean(repo) on the captured listing
Classify ==
    /\ pc = "classify"
    /\ clean' = is_clean(outs.status)
    /\ verdicts' = Append(verdicts, is_clean(outs.status))
    /\ cmds' = Append(cmds, Cmd(i, "status"))
    /\ pc' = "classified"
    /\ UNCHANGED <<args, SSH_KEY, exists, scan, gitdirs, head, history, tracked, untracked, stashes,
                   latest, force, repos, total, i, br, outs, outcomes, errors,
                   agents, keys, helps>>

NextClassify == Classify

SpecClassify == InitClassify /\ [][NextClassify]_vars

-----------------------------------------------------------------------------
(* The tool run twice in succession with the same command line, over one    *)
(* search tree holding at most one checkout                                 *)

\* the branch states a checkout may start in: on the default branch or on
\* another one, level with its remote branch or one commit behind it
Heads == {Head0(b, n) : b \in {"main", "feature"}, n \in {0, 1}}

InitTwice ==
    /\ args \in ArgLists
    /\ SSH_KEY \in {"", "~/.ssh/id_rsa"}
    /\ exists = [b \in {SEARCH_DIRS[k] : k \in DOMAIN SEARCH_DIRS} |-> TRUE]
    /\ gitdirs \in {{}} \cup {{d} : d \in Dirs}
    /\ scan = [d \in Dirs |-> SetToSeq(subdirs(d))]
    /\ tracked \in [gitdirs -> SUBSET TrackedFiles]
    /\ untracked \in [gitdirs -> SUBSET UntrackedFiles]
    /\ stashes = [d \in gitdirs |-> <<>>]
    /\ head \in [gitdirs -> Heads]
    /\ pc = "main"
    /\ latest = FALSE
    /\ force = FALSE
    /\ repos = <<>>
    /\ total = 0
    /\ i = 0
    /\ clean = TRUE
    /\ br = <<>>
    /\ outs = NoOutputs
    /\ cmds = <<>>
    /\ verdicts = <<>>
    /\ outcomes = <<>>
    /\ errors = 0
    /\ agents = 0
    /\ keys = 0
    /\ helps = 0
    /\ history = <<Snapshot>>

\* the first run has ended and the program is started again: a new process
\* with the same arguments and configuration over the repositories as the
\* first run left them; what the first run left is recorded
Rerun ==
    /\ pc = "exit"
    /\ Len(history) = 1
    /\ history' = Append(history, Snapshot)
    /\ pc' = "main"
    /\ latest' = FALSE
    /\ force' = FALSE
    /\ repos' = <<>>
    /\ total' = 0
    /\ i' = 0
    /\ clean' = TRUE
    /\ br' = <<>>
    /\ outs' = NoOutputs
    /\ cmds' = <<>>
    /\ verdicts' = <<>>
    /\ outcomes' = <<>>
    /\ errors' = 0
    /\ helps' = 0
    /\ UNCHANGED <<args, SSH_KEY, exists, scan, gitdirs, head, tracked,
                   untracked, stashes, agents, keys>>

NextTwice ==
    \/ Next
    \/ Rerun

SpecTwice == InitTwice /\ [][NextTwice]_vars

-----------------------------------------------------------------------------
(* get_repos on its own: every directory tree below the two search roots,   *)
(* with any placement of .git directories and any listing order             *)

\* the directories a tree may hold: siblings, a directory nested two levels
\* down, and the search roots themselves
Tree ==
    { <<"Extensions">>, <<"Extensions", "a">>, <<"Extensions", "b">>,
      <<"Extensions", "a", "c">>, <<"Modules">>, <<"Modules", "a">> }

\* the subdirectories of d among the directories D
Children(d, D) == {e \in D : Len(e) = Len(d) + 1 /\ IsPrefix(d, e)}

\* the orders in which os.scandir may list the directories S
Orders(S) ==
    {q \in [1..Cardinality(S) -> S] : \A x \in S : \E k \in DOMAIN q : q[k] = x}

\* the sets of directories that can exist together
Trees ==
    {D \in SUBSET Tree :
        \A d \in D : Len(d) > 1 => SubSeq(d, 1, Len(d) - 1) \in D}

InitDiscover ==
    /\ args = {"--pull"}
    /\ SSH_KEY = ""
    /\ \E D \in Trees :
          /\ exists = [b \in {SEARCH_DIRS[k] : k \in DOMAIN SEARCH_DIRS} |->
                          b \in D]
          /\ scan \in {f \in [D -> UNION {Orders(Children(d, D)) : d \in D}] :
                          \A d \in D : f[d] \in Orders(Children(d, D))}
          /\ gitdirs \in SUBSET D
    /\ tracked = [d \in gitdirs |-> {}]
    /\ untracked = [d \in gitdirs |-> {}]
    /\ stashes = [d \in gitdirs |-> <<>>]
    /\ head = [d \in gitdirs |-> Head0("main", 0)]
    /\ pc = "get_repos"
    /\ latest = FALSE
    /\ force = FALSE
    /\ repos = <<>>
    /\ total = 0
    /\ i = 0
    /\ clean = TRUE
    /\ br = <<>>
    /\ outs = NoOutputs
    /\ cmds = <<>>
    /\ verdicts = <<>>
    /\ outcomes = <<>>
    /\ errors = 0
    /\ agents = 0
    /\ keys = 0
    /\ helps = 0
    /\ history = <<Snapshot>>

NextDiscover == GetRepos

SpecDiscover == InitDiscover /\ [][NextDiscover]_vars

-----------------------------------------------------------------------------
(* Properties *)

\* the positions in cmds of command c run on the n-th repository
Positions(n, c) ==
    {k \in DOMAIN cmds : cmds[k].repo = n /\ cmds[k].cmd = c}

Count(n, c) == Cardinality(Positions(n, c))

\* the Outcome lines printed for the n-th repository
OutcomesOf(n) == {k \in DOMAIN outcomes : outcomes[k].index = n}

\* the text holds "error" or "fatal" in some spelling
SaysErrorOrFatal(text) ==
    \E k \in DOMAIN text :
        text[k] \in {"error", "Error", "ERROR", "fatal", "Fatal", "FATAL"}

\* the iteration of the i-th repository has run to its Outcome line
IterationDone == i >= 1 /\ pc \in {"loop", "exit"}

\* C1: each discovered repository gets exactly one Outcome line per run: never
\* more than one, and never zero once the run has ended.
C1_ExactlyOneOutcome ==
    /\ \A n \in 1..total : Cardinality(OutcomesOf(n)) <= 1
    /\ pc \in {"exit", "raised"} =>
          \A n \in 1..total : Cardinality(OutcomesOf(n)) = 1

\* C2: outside force mode a repository classified dirty has no stash, fetch,
\* checkout or pull run on it, and its Outcome is SKIP "uncommitted".
C2_DirtySkippedUntouched ==
    ~force =>
        \A n \in DOMAIN verdicts :
            ~verdicts[n] =>
                /\ \A k \in DOMAIN cmds :
                      cmds[k].repo = n => cmds[k].cmd = "status"
                /\ \A k \in OutcomesOf(n) :
                      /\ outcomes[k].tag = "SKIP"
                      /\ outcomes[k].note = <<"uncommitted">>
                /\ (n < i \/ pc # "branch") => OutcomesOf(n) # {}

C2_Witness ==
    /\ ~force
    /\ pc = "exit"
    /\ \E n \in DOMAIN verdicts :
          /\ ~verdicts[n]
          /\ \E k \in OutcomesOf(n) : outcomes[k].note = <<"uncommitted">>
    /\ \E n \in DOMAIN verdicts : verdicts[n] /\ Count(n, "pull") = 1

\* C3: a forced stash never takes untracked files: every untracked file of a
\* working tree is still there after any step, and no stash entry holds one.
C3_UntrackedNeverStashed ==
    [][\A d \in gitdirs :
          /\ untracked[d] \subseteq untracked'[d]
          /\ \A k \in DOMAIN stashes'[d] : stashes'[d][k].untracked = {}]_vars

\* C4: in force mode a dirty repository is stashed, then fetched, then pulled:
\* no fetch or pull comes before its stash, no pull before its fetch, and the
\* Outcome that follows them is FORCE "stash + pull".
C4_ForceOrder ==
    force =>
        \A n \in DOMAIN verdicts :
            ~verdicts[n] =>
                /\ \A k \in Positions(n, "fetch") \cup Positions(n, "pull") :
                      \E s \in Positions(n, "stash") : s < k
                /\ \A p \in Positions(n, "pull") :
                      /\ Positions(n, "fetch") # {}
                      /\ \A f \in Positions(n, "fetch") : f < p
                /\ Count(n, "stash") <= 1
                /\ Count(n, "checkout") = 0
                /\ \A k \in OutcomesOf(n) :
                      /\ outcomes[k].tag = "FORCE"
                      /\ outcomes[k].note = <<"stash + pull">>
                      /\ Count(n, "pull") = 1
                /\ (n < i \/ pc \in {"loop", "exit"}) => OutcomesOf(n) # {}

C4_Witness ==
    /\ force
    /\ pc = "exit"
    /\ \E n \in DOMAIN verdicts :
          /\ ~verdicts[n]
          /\ Count(n, "fetch") = 2
          /\ \E k \in OutcomesOf(n) : outcomes[k].tag = "FORCE"

\* C5: is_clean answers clean exactly when the status listing is empty or
\* every one of its lines begins with "??".
C5_CleanIffOnlyUntracked ==
    pc = "classified" =>
        LET listing == splitlines(outs.status) IN
        clean <=> \A k \in DOMAIN listing :
                      SubSeq(listing[k], 1, 2) = <<"?", "?">>

C5_Witness ==
    /\ pc = "classified"
    /\ ~clean
    /\ LET listing == splitlines(outs.status) IN
       /\ Len(listing) = 3
       /\ SubSeq(listing[1], 1, 2) = <<"?", "?">>
       /\ SubSeq(listing[3], 1, 2) = <<"?", "?">>

\* C6: the batch is never aborted: Outcomes come in discovery order, no
\* command runs on a repository before the Outcome of the one before it, and
\* no output of an external command ends the run before every repository is
\* processed.
C6_BatchNeverAborted ==
    /\ \A k \in DOMAIN outcomes : outcomes[k].index = k
    /\ \A k \in DOMAIN cmds : cmds[k].repo <= Len(outcomes) + 1
    /\ pc # "raised"

\* C7: in every mode, a pull (or a fetch, after its retry) whose output says
\* "error" or "fatal" gives the repository a SKIP Outcome, never a success.
C7_FailureReported ==
    (IterationDone /\ Len(outcomes) = i) =>
        LET lastFetch == IF Count(i, "fetch") = 2 THEN outs.retry
                         ELSE outs.fetch
        IN  (\/ Count(i, "pull") > 0 /\ SaysErrorOrFatal(outs.pull)
             \/ Count(i, "fetch") > 0 /\ SaysErrorOrFatal(lastFetch))
            => outcomes[i].tag = "SKIP"

\* C8: in latest mode on a clean repository, remote info without a
\* "HEAD branch" line gives SKIP "no default branch" and neither checkout nor
\* pull is run.
C8_NoDefaultBranch ==
    (latest /\ i >= 1 /\ clean /\ Count(i, "remote") > 0
       /\ ~Contains(outs.remote, "HEAD branch")) =>
        /\ Len(outcomes) = i
        /\ outcomes[i].tag = "SKIP"
        /\ outcomes[i].note = <<"no default branch">>
        /\ Count(i, "checkout") = 0
        /\ Count(i, "pull") = 0

C8_Witness ==
    /\ latest
    /\ pc = "exit"
    /\ clean
    /\ Count(i, "remote") > 0
    /\ ~Contains(outs.remote, "HEAD branch")

\* C9: in latest mode, a checkout whose output says "error" or "fatal" in any
\* case gives SKIP "checkout failed" and pull is never run.
C9_CheckoutFailed ==
    (latest /\ i >= 1 /\ clean /\ Count(i, "checkout") > 0
       /\ SaysErrorOrFatal(outs.checkout)) =>
        /\ Len(outcomes) = i
        /\ outcomes[i].tag = "SKIP"
        /\ outcomes[i].note = <<"checkout failed">>
        /\ Count(i, "pull") = 0

C9_Witness ==
    /\ latest
    /\ pc = "exit"
    /\ Count(i, "checkout") > 0
    /\ Contains(outs.checkout, "Fatal")

\* C10: load_ssh runs only after a first fetch that printed "Permission
\* denied", and the fetch is then run exactly once more: one fetch command
\* without a permission failure, two with one, never three; stash, checkout
\* and pull are run at most once per repository.
C10_FetchRetriedOnce ==
    /\ \A k \in DOMAIN cmds :
          LET c == cmds[k] IN
          /\ c.cmd = "load_ssh" =>
                k > 1 /\ cmds[k - 1] = Cmd(c.repo, "fetch")
          /\ c.cmd \in {"stash", "checkout", "pull", "load_ssh"} =>
                \A j \in 1..(k - 1) : cmds[j] # c
          /\ c.cmd = "fetch" =>
                \A j \in 1..(k - 1) :
                    cmds[j] = c => j = k - 2 /\ cmds[k - 1].cmd = "load_ssh"
    /\ (i >= 1 /\ Positions(i, "fetch") # {}) =>
          LET denied == Contains(outs.fetch, "Permission denied") IN
          /\ Positions(i, "load_ssh") # {} => denied
          /\ pc \notin {"load_ssh", "retry"} =>
                /\ Count(i, "fetch") = (IF denied THEN 2 ELSE 1)
                /\ Count(i, "load_ssh") = (IF denied THEN 1 ELSE 0)

C10_Witness ==
    /\ pc = "exit"
    /\ Count(i, "fetch") = 2
    /\ Count(i, "load_ssh") = 1
    /\ Contains(outs.retry, "Permission denied")
    /\ Count(i, "pull") = 1

\* C11: with --latest and without --pull, also when --force is given, a dirty
\* repository is never stashed, fetched, checked out or pulled and its Outcome
\* is SKIP "uncommitted".
C11_LatestCleanOnly ==
    ("--latest" \in args /\ "--pull" \notin args) =>
        \A n \in DOMAIN verdicts :
            ~verdicts[n] =>
                /\ \A k \in DOMAIN cmds :
                      cmds[k].repo = n =>
                          cmds[k].cmd \notin
                              {"stash", "fetch", "checkout", "pull"}
                /\ \A k \in OutcomesOf(n) :
                      /\ outcomes[k].tag = "SKIP"
                      /\ outcomes[k].note = <<"uncommitted">>
                /\ (n < i \/ pc # "branch") => OutcomesOf(n) # {}

C11_Witness ==
    /\ args = {"--latest", "--force"}
    /\ pc = "exit"
    /\ \E n \in DOMAIN verdicts :
          /\ ~verdicts[n]
          /\ tracked[repos[n]] # {}
          /\ \E k \in OutcomesOf(n) : outcomes[k].note = <<"uncommitted">>

\* C12: with no credential path configured, load_ssh prints its error and
\* returns: no agent is started, no key is registered, and the configuration,
\* the directories and every checkout are left as they were.
C12_NoKeyNoSideEffects ==
    [][(pc = "load_ssh" /\ SSH_KEY = "") =>
          /\ errors' = errors + 1
          /\ pc' = "retry"
          /\ UNCHANGED <<agents, keys, SSH_KEY, args, exists, scan, gitdirs,
                         tracked, untracked, stashes, head>>]_vars

C12_Witness ==
    /\ SSH_KEY = ""
    /\ pc = "retry"
    /\ errors = 1
    /\ agents = 0
    /\ keys = 0

\* C13: get_repos returns every directory below an existing search root, at
\* any depth, that directly contains a .git directory (the root itself and
\* directories inside another checkout included), each once and nothing else;
\* a search root that does not exist contributes nothing and the other root
\* is still searched.
C13_DiscoversEveryCheckout ==
    pc = "loop" =>
        /\ {repos[k] : k \in DOMAIN repos} = gitdirs
        /\ Len(repos) = Cardinality(gitdirs)
        /\ \A k \in DOMAIN repos : exists[<<repos[k][1]>>]

\* one root is missing; the other root, two siblings below it and a directory
\* inside one of them are all checkouts
C13_Witness ==
    /\ pc = "loop"
    /\ ~exists[<<"Modules">>]
    /\ Len(repos) = 4
    /\ repos[1] = <<"Extensions">>
    /\ \E k \in DOMAIN repos : repos[k] = <<"Extensions", "a", "c">>

\* the Outcome lines in the list os that are about the repository d
LinesAbout(os, d) == {k \in DOMAIN os : os[k].rel = d}

\* the lines about d in os are one line, and it says OK "pull"
OkPullOnce(os, d) ==
    /\ Cardinality(LinesAbout(os, d)) = 1
    /\ \A k \in LinesAbout(os, d) :
          os[k].tag = "OK" /\ os[k].note = <<"pull">>

\* C14: the tool run twice in succession in plain mode: a repository that was
\* clean and level with its remote before the first run gets Outcome OK
\* "pull" in both runs, and its working tree, current branch and stash list
\* after the second run equal those after the first run and before it.
C14_PlainTwiceIdempotent ==
    (Len(history) = 2 /\ pc = "exit" /\ "--pull" \in args) =>
        \A d \in gitdirs :
            (history[1].state[d].tracked = {}
                /\ history[1].state[d].head.behind = 0) =>
                /\ OkPullOnce(history[2].outcomes, d)
                /\ OkPullOnce(outcomes, d)
                /\ history[2].state[d] = history[1].state[d]
                /\ Snapshot.state[d] = history[1].state[d]

C14_Witness ==
    /\ Len(history) = 2
    /\ pc = "exit"
    /\ args = {"--pull"}
    /\ \E d \in gitdirs :
          /\ history[1].state[d].tracked = {}
          /\ history[1].state[d].untracked # {}
          /\ history[1].state[d].head = Head0("feature", 0)
          /\ OkPullOnce(history[2].outcomes, d)
          /\ OkPullOnce(outcomes, d)
          /\ outs.pull = <<"Already up to date.", "\n">>

\* every position of command a on the n-th repository is before every
\* position of command b on it
Before(n, a, b) ==
    \A x \in Positions(n, a) : \A y \in Positions(n, b) : x < y

\* C16: in latest mode on a clean repository the commands run in the order
\* fetch, remote show, checkout, pull, each only after the one before it; pull
\* runs only after a checkout whose output says neither "error" nor "fatal";
\* a pull output saying "error" or "fatal" in any case gives SKIP "pull
\* failed", any other gives OK "latest: <branch>" with the branch the
\* repository was switched to.
C16_LatestSteps ==
    (latest /\ i >= 1 /\ Len(verdicts) = i /\ verdicts[i]) =>
        /\ Before(i, "fetch", "remote")
        /\ Before(i, "remote", "checkout")
        /\ Before(i, "checkout", "pull")
        /\ Positions(i, "stash") = {}
        /\ Positions(i, "remote") # {} => Positions(i, "fetch") # {}
        /\ Positions(i, "checkout") # {} => Positions(i, "remote") # {}
        /\ Positions(i, "pull") # {} =>
              /\ Positions(i, "checkout") # {}
              /\ ~SaysErrorOrFatal(outs.checkout)
              /\ Len(outcomes) = i
              /\ IF SaysErrorOrFatal(outs.pull)
                 THEN /\ outcomes[i].tag = "SKIP"
                      /\ outcomes[i].note = <<"pull failed">>
                 ELSE /\ outcomes[i].tag = "OK"
                      /\ outcomes[i].note =
                            <<"latest: ">> \o head[repos[i]].branch

C16_Witness ==
    /\ latest
    /\ pc = "exit"
    /\ i = 2
    /\ verdicts = <<TRUE, TRUE>>
    /\ outcomes[1].tag = "OK" /\ outcomes[1].note = <<"latest: ", "main">>
    /\ outcomes[2].tag = "SKIP" /\ outcomes[2].note = <<"pull failed">>
    /\ Contains(outs.pull, "fatal")
    /\ Count(2, "fetch") = 1 /\ Count(2, "remote") = 1
    /\ Count(2, "checkout") = 1 /\ Count(2, "pull") = 1

\* C17: no status, stash, fetch, checkout or pull command runs and no Outcome
\* is printed before get_repos has returned the whole list; the total in every
\* Outcome is the number of repositories discovered, the same in all of them,
\* and the k-th Outcome printed carries index k.
C17_ListBeforeProcessing ==
    /\ pc \in {"main", "get_repos"} =>
          cmds = <<>> /\ outcomes = <<>> /\ verdicts = <<>>
    /\ cmds # <<>> => total = Len(repos) /\ total = Cardinality(gitdirs)
    /\ Len(outcomes) <= total
    /\ \A k \in DOMAIN outcomes :
          /\ outcomes[k].index = k
          /\ outcomes[k].total = Cardinality(gitdirs)
          /\ outcomes[k].rel = repos[k]

C17_Witness ==
    /\ pc = "exit"
    /\ Cardinality(gitdirs) = 2
    /\ Len(outcomes) = 2
    /\ outcomes[1].index = 1 /\ outcomes[1].total = 2
    /\ outcomes[2].index = 2 /\ outcomes[2].total = 2
    /\ outcomes[1].tag = "SKIP" /\ outcomes[2].tag = "OK"

\* C18: with no SSH_KEY configured, the missing-key error is printed at most
\* once in a run, however many fetches print "Permission denied".
C18_ErrorReportedOnce == SSH_KEY = "" => errors <= 1

\* C19: once the entry point has chosen: without --pull and without --latest
\* (no arguments and --help alone included) the help is printed and nothing
\* is discovered or run; with --pull the run is plain mode, forced exactly
\* when --force is given, also when --latest is given; latest mode is chosen
\* exactly when --latest is given and --pull is not.
C19_ModeSelection ==
    pc # "main" =>
        /\ ("--pull" \notin args /\ "--latest" \notin args) =>
              /\ helps = 1
              /\ pc = "exit"
              /\ repos = <<>> /\ total = 0
              /\ cmds = <<>> /\ verdicts = <<>> /\ outcomes = <<>>
        /\ "--pull" \in args =>
              /\ ~latest
              /\ force <=> "--force" \in args
              /\ helps = 0
        /\ latest <=> ("--latest" \in args /\ "--pull" \notin args)
        /\ latest => helps = 0

C19_Witness ==
    /\ args = {"--pull", "--latest", "--force"}
    /\ pc = "exit"
    /\ ~latest
    /\ force
    /\ Len(outcomes) = 2
    /\ outcomes[1].tag = "FORCE"
    /\ outcomes[2].tag = "OK" /\ outcomes[2].note = <<"pull">>

\* the commands run on the n-th repository, in the order they ran
CmdsOf(n) ==
    LET mine == SelectSeq(cmds, LAMBDA c : c.repo = n) IN
    [k \in DOMAIN mine |-> mine[k].cmd]

\* C20: a repository classified clean is never stashed, in any mode and with
\* force on or off; in plain mode its commands are status, fetch (once more
\* after load_ssh on a permission failure) and pull, and its Outcome is OK
\* "pull", the same whether force is on or off.
C20_CleanNeverStashed ==
    \A n \in DOMAIN verdicts :
        verdicts[n] =>
            /\ Positions(n, "stash") = {}
            /\ stashes[repos[n]] = <<>>
            /\ (~latest /\ (n < i \/ pc \in {"loop", "exit"})) =>
                  /\ CmdsOf(n) \in
                        { <<"status", "fetch", "pull">>,
                          <<"status", "fetch", "load_ssh", "fetch", "pull">> }
                  /\ Cardinality(OutcomesOf(n)) = 1
                  /\ \A k \in OutcomesOf(n) :
                        outcomes[k].tag = "OK" /\ outcomes[k].note = <<"pull">>

C20_Witness ==
    /\ pc = "exit"
    /\ force
    /\ verdicts = <<TRUE, FALSE>>
    /\ untracked[repos[1]] # {}
    /\ CmdsOf(1) = <<"status", "fetch", "pull">>
    /\ outcomes[1].tag = "OK" /\ outcomes[1].note = <<"pull">>
    /\ CmdsOf(2) = <<"status", "stash", "fetch", "pull">>
    /\ stashes[repos[1]] = <<>>

====
